---- MODULE Spec2Model ----
(***************************************************************************)
(* Model of airtable_streamlit_app.py: the four request wrappers           *)
(* (add_record_to_airtable, get_records_from_airtable,                     *)
(* update_airtable_record, delete_airtable_record), their callers in the   *)
(* Streamlit script, and the remote table they talk to.                    *)
(*                                                                         *)
(* Each wrapper is one blocking request/response exchange.  The remote     *)
(* table is the environment: it keeps an ordered sequence of               *)
(* {id, fields} records, assigns a fresh id on creation, and answers a     *)
(* listing with one page of records.  An exchange ends in one of: an HTTP  *)
(* response with a status and a body, or an exception raised by the        *)
(* requests library; in both cases the table may or may not have applied   *)
(* the request, as far as the protocol allows.                             *)
(***************************************************************************)
EXTENDS Naturals, Sequences, FiniteSets

VARIABLES store, nextId, last, prev, prev2, nrec, nstage, nflat, nnest, nflat2

vars == <<store, nextId, last, prev, prev2, nrec, nstage, nflat, nnest, nflat2>>
callVars == <<store, nextId, last, prev, prev2>>
normVars == <<nrec, nstage, nflat, nnest, nflat2>>

(* ------------------------------ bounds -------------------------------- *)

\* Number of records the remote table creates in a run.
MaxCreates == 3

\* Number of records the remote table returns in one listing response
\* (scaled down; the request of get_records_from_airtable carries no
\* offset and asks for no further page).
PageSize == 2

(* ----------------------------- constants ------------------------------ *)

\* response.status_code == 200
HTTP_OK == 200

FailStatuses == {404, 422}

None == "None"

Ids == <<"rec1", "rec2", "rec3", "rec4", "rec5", "rec6", "rec7", "rec8", "rec9">>

IdOf(n) == Ids[n]

\* The identifiers a caller may pass to update and delete.
CallerIds == {IdOf(n) : n \in 1..MaxCreates}

\* Two fields of the form's record stand for the eighteen.
FieldNames == {"Notes", "CR"}

\* record_data of the form: every field is present.
FormRecords == {[Notes |-> "x", CR |-> "0"], [Notes |-> "y", CR |-> "1"]}

\* updates: only the fields to change.
PartialRecords == {[CR |-> "1"], [Notes |-> "x"]}

NoFields == [k \in {} |-> "0"]

(* ------------------------- request construction ----------------------- *)

\* Variant of AddRequest: the record is put in the batch twice.
AddRequest_Twice(record_data) ==
    [method |-> "POST", rid |-> None,
     records |-> <<[fields |-> record_data], [fields |-> record_data]>>]

\* data = {"records": [{"fields": record_data}]}, POST to the collection
AddRequest(record_data) ==
    [method |-> "POST", rid |-> None, records |-> <<[fields |-> record_data]>>]

\* GET to the collection, no query parameters
ListRequest ==
    [method |-> "GET", rid |-> None, records |-> <<>>]

\* data = {"records": [{"id": record_id, "fields": updates}]}, PATCH to the collection
UpdateRequest(record_id, updates) ==
    [method |-> "PATCH", rid |-> None,
     records |-> <<[id |-> record_id, fields |-> updates]>>]

\* DELETE to <collection>/<record_id>
DeleteRequest(record_id) ==
    [method |-> "DELETE", rid |-> record_id, records |-> <<>>]

(* ----------------------------- remote table --------------------------- *)

StoreIds(recs) == {recs[i].id : i \in DOMAIN recs}

Merge(old, new) ==
    [k \in (DOMAIN old) \cup (DOMAIN new) |-> IF k \in DOMAIN new THEN new[k] ELSE old[k]]

RECURSIVE Created(_, _)
\* The records a batch-create request creates, ids assigned from n on.
Created(reqRecords, n) ==
    IF reqRecords = <<>> THEN <<>>
    ELSE <<[id |-> IdOf(n), fields |-> Head(reqRecords).fields]>>
         \o Created(Tail(reqRecords), n + 1)

Patched(recs, patch) ==
    [i \in DOMAIN recs |->
        IF recs[i].id = patch.id
        THEN [id |-> recs[i].id, fields |-> Merge(recs[i].fields, patch.fields)]
        ELSE recs[i]]

RECURSIVE Without(_, _)
Without(recs, id) ==
    IF recs = <<>> THEN <<>>
    ELSE IF Head(recs).id = id THEN Without(Tail(recs), id)
    ELSE <<Head(recs)>> \o Without(Tail(recs), id)

\* Whether the table accepts the request (an unknown record id is refused).
StoreAccepts(req, recs) ==
    CASE req.method = "PATCH" -> \A i \in DOMAIN req.records : req.records[i].id \in StoreIds(recs)
      [] req.method = "DELETE" -> req.rid \in StoreIds(recs)
      [] OTHER -> TRUE

\* The table after it applied the request.
StoreApply(req, recs, next) ==
    CASE req.method = "POST" ->
            [recs |-> recs \o Created(req.records, next), next |-> next + Len(req.records)]
      [] req.method = "PATCH" ->
            [recs |-> Patched(recs, req.records[1]), next |-> next]
      [] req.method = "DELETE" ->
            [recs |-> Without(recs, req.rid), next |-> next]
      [] OTHER -> [recs |-> recs, next |-> next]

\* The first page of the table: what one listing response carries.
Page(recs) == SubSeq(recs, 1, IF Len(recs) < PageSize THEN Len(recs) ELSE PageSize)

\* The "records" member of the body of a success response.
Body(req, recs, next) ==
    CASE req.method = "POST" -> Created(req.records, next)
      [] req.method = "GET" -> Page(recs)
      [] req.method = "PATCH" ->
            SelectSeq(Patched(recs, req.records[1]), LAMBDA r : r.id = req.records[1].id)
      [] OTHER -> <<>>

Http(status, readable, records) ==
    [kind |-> "http", status |-> status, readable |-> readable, records |-> records]

Raised == [kind |-> "exc", status |-> 0, readable |-> FALSE, records |-> <<>>]

\* The ways one exchange can end: the response the caller gets, and whether
\* the table applied the request.
Outcomes(req, recs, next) ==
    LET acc == StoreAccepts(req, recs)
        yes == IF acc THEN {TRUE} ELSE {}
    IN  \* the table applies the request and answers 200 with the documented body
        {[resp |-> Http(HTTP_OK, TRUE, Body(req, recs, next)), applied |-> a] : a \in yes}
        \* the table applies the request and answers 200, and the body that
        \* arrives cannot be read as {"records": [...]}
        \cup {[resp |-> Http(HTTP_OK, FALSE, <<>>), applied |-> a] : a \in yes}
        \* a 200 whose body holds an empty "records" list, nothing created
        \cup {[resp |-> Http(HTTP_OK, TRUE, <<>>), applied |-> FALSE] : x \in
                 IF req.method = "POST" THEN {1} ELSE {}}
        \* the table refuses the request
        \cup {[resp |-> Http(s, TRUE, <<>>), applied |-> FALSE] : s \in FailStatuses}
        \* requests raises: before the request reached the table, or after
        \cup {[resp |-> Raised, applied |-> a] : a \in yes \cup {FALSE}}

(* ------------------------------ the gateway --------------------------- *)

NoDiag == "none"

\* st.error(f"Airtable API error: {response.text}")
ApiError == "api_error"

\* st.error(f"Error: {e}")
ExcError == "exception"

\* Variant of add_record_to_airtable: the body is read outside the try, so
\* a 200 without a created record raises out of the function.
add_record_unguarded(resp) ==
    IF resp.kind = "exc"
    THEN [ret |-> None, diag |-> ExcError, raised |-> FALSE]
    ELSE IF resp.status = HTTP_OK
         THEN IF resp.readable /\ Len(resp.records) >= 1
              THEN [ret |-> resp.records[1].id, diag |-> NoDiag, raised |-> FALSE]
              ELSE [ret |-> None, diag |-> NoDiag, raised |-> TRUE]
         ELSE [ret |-> None, diag |-> ApiError, raised |-> FALSE]

\* The value of add_record_to_airtable for the response of its request:
\* the identifier or None, the diagnostic shown, and whether an exception
\* leaves the function.
add_record_to_airtable(resp) ==
    IF resp.kind = "exc"
    THEN [ret |-> None, diag |-> ExcError, raised |-> FALSE]
    ELSE IF resp.status = HTTP_OK
         THEN IF resp.readable /\ Len(resp.records) >= 1
              THEN [ret |-> resp.records[1].id, diag |-> NoDiag, raised |-> FALSE]
              \* response.json()["records"][0]["id"] raises inside the try
              ELSE [ret |-> None, diag |-> ExcError, raised |-> FALSE]
         ELSE [ret |-> None, diag |-> ApiError, raised |-> FALSE]

\* Variant of Flatten: the identifier is not injected.
Flatten_NoId(record) == record.fields

\* Variant of Flatten: a field named airtable_id is not overwritten.
Flatten_KeepExisting(record) ==
    [k \in (DOMAIN record.fields) \cup {"airtable_id"} |->
        IF k \in DOMAIN record.fields THEN record.fields[k] ELSE record.id]

\* flat_record = record["fields"]; flat_record["airtable_id"] = record["id"]
Flatten(record) ==
    [k \in (DOMAIN record.fields) \cup {"airtable_id"} |->
        IF k = "airtable_id" THEN record.id ELSE record.fields[k]]

\* Variant of get_records_from_airtable: None on a failure.
get_records_none_on_failure(resp) ==
    IF resp.kind = "http" /\ resp.status = HTTP_OK /\ resp.readable
    THEN [ret |-> [i \in DOMAIN resp.records |-> Flatten(resp.records[i])],
          none |-> FALSE, diag |-> NoDiag, raised |-> FALSE]
    ELSE [ret |-> <<>>, none |-> TRUE,
          diag |-> (IF resp.kind = "http" /\ resp.status # HTTP_OK THEN ApiError ELSE ExcError),
          raised |-> FALSE]

RECURSIVE DistinctByFields(_)
\* The records whose fields differ from those of every earlier record.
DistinctByFields(recs) ==
    IF recs = <<>> THEN <<>>
    ELSE LET front == SubSeq(recs, 1, Len(recs) - 1)
             r == recs[Len(recs)]
         IN  IF \E i \in DOMAIN front : front[i].fields = r.fields
             THEN DistinctByFields(front)
             ELSE DistinctByFields(front) \o <<r>>

\* Variant of get_records_from_airtable: records with equal fields are
\* listed once.
get_records_dedup(resp) ==
    IF resp.kind = "exc"
    THEN [ret |-> <<>>, none |-> FALSE, diag |-> ExcError, raised |-> FALSE]
    ELSE IF resp.status = HTTP_OK
         THEN IF resp.readable
              THEN [ret |-> [i \in DOMAIN DistinctByFields(resp.records) |->
                                Flatten(DistinctByFields(resp.records)[i])],
                    none |-> FALSE, diag |-> NoDiag, raised |-> FALSE]
              ELSE [ret |-> <<>>, none |-> FALSE, diag |-> ExcError, raised |-> FALSE]
         ELSE [ret |-> <<>>, none |-> FALSE, diag |-> ApiError, raised |-> FALSE]

\* The value of get_records_from_airtable for the response of its request.
get_records_from_airtable(resp) ==
    IF resp.kind = "exc"
    THEN [ret |-> <<>>, none |-> FALSE, diag |-> ExcError, raised |-> FALSE]
    ELSE IF resp.status = HTTP_OK
         THEN IF resp.readable
              THEN [ret |-> [i \in DOMAIN resp.records |-> Flatten(resp.records[i])],
                    none |-> FALSE, diag |-> NoDiag, raised |-> FALSE]
              ELSE [ret |-> <<>>, none |-> FALSE, diag |-> ExcError, raised |-> FALSE]
         ELSE [ret |-> <<>>, none |-> FALSE, diag |-> ApiError, raised |-> FALSE]

\* Variant of update_airtable_record: any response counts as success.
update_ignores_status(resp) ==
    IF resp.kind = "exc"
    THEN [ret |-> FALSE, diag |-> ExcError, raised |-> FALSE]
    ELSE [ret |-> TRUE, diag |-> NoDiag, raised |-> FALSE]

\* Variant of update_airtable_record: a non-success status is reported
\* with st.error, as add_record_to_airtable does.
update_reports_status(resp) ==
    IF resp.kind = "exc"
    THEN [ret |-> FALSE, diag |-> ExcError, raised |-> FALSE]
    ELSE [ret |-> (resp.status = HTTP_OK),
          diag |-> (IF resp.status = HTTP_OK THEN NoDiag ELSE ApiError), raised |-> FALSE]

\* The value of update_airtable_record for the response of its request.
update_airtable_record(resp) ==
    IF resp.kind = "exc"
    THEN [ret |-> FALSE, diag |-> ExcError, raised |-> FALSE]
    ELSE [ret |-> (resp.status = HTTP_OK), diag |-> NoDiag, raised |-> FALSE]

\* Variant of delete_airtable_record: any response counts as success.
delete_ignores_status(resp) ==
    IF resp.kind = "exc"
    THEN [ret |-> FALSE, diag |-> ExcError, raised |-> FALSE]
    ELSE [ret |-> TRUE, diag |-> NoDiag, raised |-> FALSE]

\* Variant of delete_airtable_record: only 404 counts as a failure.
delete_fails_on_404_only(resp) ==
    IF resp.kind = "exc"
    THEN [ret |-> FALSE, diag |-> ExcError, raised |-> FALSE]
    ELSE [ret |-> (resp.status # 404), diag |-> NoDiag, raised |-> FALSE]

\* The value of delete_airtable_record for the response of its request.
delete_airtable_record(resp) ==
    IF resp.kind = "exc"
    THEN [ret |-> FALSE, diag |-> ExcError, raised |-> FALSE]
    ELSE [ret |-> (resp.status = HTTP_OK), diag |-> NoDiag, raised |-> FALSE]

(* ------------------------------ the callers --------------------------- *)

\* if record_id: st.success(...) else: st.error("Failed to save record")
FormBranch(record_id) == IF record_id # None THEN "saved" ELSE "save_failed"

\* if records is not None: st.success(f"Connected! Found {len(records)} records")
\* else: st.error("Connection failed. Check your credentials.")
TestBranch(r) == IF ~r.none THEN "connected" ELSE "connection_failed"

\* if records: ... else: st.info("No records found. ...")
ViewBranch(r) == IF ~r.none /\ Len(r.ret) > 0 THEN "table" ELSE "no_records"

(* -------------------------------- state ------------------------------- *)

NoCall ==
    [op |-> "none", id |-> None, fields |-> NoFields, pre |-> <<>>]

\* What is remembered of a call once another call follows it: a call that
\* reported success keeps its operation, identifier and fields (and, for
\* update and delete, the table before it); any other call is forgotten.
Summary(l) ==
    IF l.op = "create" /\ l.retId # None
    THEN [op |-> "create", id |-> l.retId, fields |-> l.fields, pre |-> <<>>]
    ELSE IF l.op \in {"update", "delete"} /\ l.retOk
         THEN [op |-> l.op, id |-> l.id, fields |-> l.fields, pre |-> l.pre]
         ELSE NoCall

IsList(l) == l.op \in {"test", "view"}

\* The list call got a 200 with a readable body.
ListOk(l) == IsList(l) /\ l.kind = "http" /\ l.status = HTTP_OK /\ l.readable

NoLast ==
    [op |-> "none", id |-> None, fields |-> NoFields, kind |-> "none", status |-> 0,
     readable |-> FALSE, nbody |-> 0, retId |-> None, retOk |-> FALSE, retList |-> <<>>,
     retNone |-> FALSE, diag |-> NoDiag, raised |-> FALSE, ui |-> "none", pre |-> <<>>]

NoRemote == [id |-> None, fields |-> NoFields]

Init ==
    /\ store = <<>>
    /\ nextId = 1
    /\ last = NoLast
    /\ prev = NoCall
    /\ prev2 = NoCall
    /\ nrec = NoRemote
    /\ nstage = "idle"
    /\ nflat = NoFields
    /\ nnest = NoRemote
    /\ nflat2 = NoFields

\* One exchange: the table moves as the outcome says and the call is
\* recorded in last.  prev and prev2 are the two calls before last, kept
\* only along the sequences whose end is read later: a successful create,
\* update or delete directly followed by a successful list, and two
\* successful creates in a row.
Exchange(req, o, call) ==
    LET after == IF o.applied THEN StoreApply(req, store, nextId)
                 ELSE [recs |-> store, next |-> nextId]
        was == Summary(last)
    IN  /\ after.next <= MaxCreates + 1
        /\ store' = after.recs
        /\ nextId' = after.next
        /\ last' = call
        /\ prev' = IF ListOk(call) \/ (Summary(call).op = "create" /\ was.op = "create")
                   THEN was ELSE NoCall
        /\ prev2' = IF ListOk(call) /\ was.op = "create" THEN prev ELSE NoCall
        /\ UNCHANGED normVars

\* The form's submit handler: add_record_to_airtable(record_data) and its branch.
FormSubmit(record_data) ==
    LET req == AddRequest(record_data) IN
    \E o \in Outcomes(req, store, nextId) :
        LET r == add_record_to_airtable(o.resp) IN
        Exchange(req, o,
            [NoLast EXCEPT !.op = "create", !.fields = record_data,
                !.kind = o.resp.kind, !.status = o.resp.status, !.readable = o.resp.readable, !.nbody = Len(o.resp.records),
                !.retId = r.ret, !.diag = r.diag, !.raised = r.raised,
                !.ui = FormBranch(r.ret), !.pre = store])

ListCall(caller, r, o) ==
    [NoLast EXCEPT !.op = caller,
        !.kind = o.resp.kind, !.status = o.resp.status, !.readable = o.resp.readable, !.nbody = Len(o.resp.records),
        !.retList = r.ret, !.retNone = r.none, !.diag = r.diag, !.raised = r.raised,
        !.ui = IF caller = "test" THEN TestBranch(r) ELSE ViewBranch(r), !.pre = store]

\* The "Test Airtable Connection" button.
TestConnection ==
    \E o \in Outcomes(ListRequest, store, nextId) :
        Exchange(ListRequest, o, ListCall("test", get_records_from_airtable(o.resp), o))

\* The "View Data" tab.
ViewTab ==
    \E o \in Outcomes(ListRequest, store, nextId) :
        Exchange(ListRequest, o, ListCall("view", get_records_from_airtable(o.resp), o))

UpdateRecord(record_id, updates) ==
    LET req == UpdateRequest(record_id, updates) IN
    \E o \in Outcomes(req, store, nextId) :
        LET r == update_airtable_record(o.resp) IN
        Exchange(req, o,
            [NoLast EXCEPT !.op = "update", !.id = record_id, !.fields = updates,
                !.kind = o.resp.kind, !.status = o.resp.status, !.readable = o.resp.readable, !.nbody = Len(o.resp.records),
                !.retOk = r.ret, !.diag = r.diag, !.raised = r.raised, !.pre = store])

DeleteRecord(record_id) ==
    LET req == DeleteRequest(record_id) IN
    \E o \in Outcomes(req, store, nextId) :
        LET r == delete_airtable_record(o.resp) IN
        Exchange(req, o,
            [NoLast EXCEPT !.op = "delete", !.id = record_id,
                !.kind = o.resp.kind, !.status = o.resp.status, !.readable = o.resp.readable, !.nbody = Len(o.resp.records),
                !.retOk = r.ret, !.diag = r.diag, !.raised = r.raised, !.pre = store])

Next ==
    \/ \E f \in FormRecords : FormSubmit(f)
    \/ TestConnection
    \/ ViewTab
    \/ \E id \in CallerIds, p \in PartialRecords : UpdateRecord(id, p)
    \/ \E id \in CallerIds : DeleteRecord(id)

Spec == Init /\ [][Next]_vars

(* --------------------------- normalisation ---------------------------- *)

\* The identifier a flat record carries, None when it carries none.
FlatId(flat) == IF "airtable_id" \in DOMAIN flat THEN flat["airtable_id"] ELSE None

\* The fields of a flat record other than the identifier.
NonIdFields(flat) == [k \in (DOMAIN flat) \ {"airtable_id"} |-> flat[k]]

\* The remote shape of a flat record: {"id": ..., "fields": {...}}, as
\* update_airtable_record builds it from an identifier and fields.
Nest(flat) == UpdateRequest(FlatId(flat), NonIdFields(flat)).records[1]

NormNames == {"Notes", "CR", "airtable_id"}

NormValues(k) ==
    IF k = "CR" THEN {"0", "1"} ELSE IF k = "Notes" THEN {"x", "y"} ELSE {"rec1", "other"}

\* Remote records: any subset of the names, a table column named
\* airtable_id included.
RemoteRecords ==
    {[id |-> i, fields |-> m] :
        i \in {"rec1", "rec2"},
        m \in UNION {{f \in [D -> {"0", "1", "x", "y", "rec1", "other"}] :
                        \A k \in D : f[k] \in NormValues(k)} : D \in SUBSET NormNames}}

NormInit ==
    /\ store = <<>>
    /\ nextId = 1
    /\ last = NoLast
    /\ prev = NoCall
    /\ prev2 = NoCall
    /\ nrec \in RemoteRecords
    /\ nstage = "remote"
    /\ nflat = NoFields
    /\ nnest = NoRemote
    /\ nflat2 = NoFields

NormFlatten ==
    /\ nstage = "remote"
    /\ nflat' = Flatten(nrec)
    /\ nstage' = "flat"
    /\ UNCHANGED <<callVars, nrec, nnest, nflat2>>

NormNest ==
    /\ nstage = "flat"
    /\ nnest' = Nest(nflat)
    /\ nstage' = "nested"
    /\ UNCHANGED <<callVars, nrec, nflat, nflat2>>

NormReflatten ==
    /\ nstage = "nested"
    /\ nflat2' = Flatten(nnest)
    /\ nstage' = "done"
    /\ UNCHANGED <<callVars, nrec, nflat, nnest>>

NormNext == NormFlatten \/ NormNest \/ NormReflatten

SpecNorm == NormInit /\ [][NormNext]_vars

(* ------------------------------ properties ---------------------------- *)

\* The positions of a list result whose record carries identifier id.
Listed(l, id) == {i \in DOMAIN l.retList : FlatId(l.retList[i]) = id}

\* The list result holds exactly one record with identifier id, and its
\* other fields are exactly fields.
ListsOnce(l, id, fields) ==
    /\ Cardinality(Listed(l, id)) = 1
    /\ \A i \in Listed(l, id) : NonIdFields(l.retList[i]) = fields

\* The record of a table with identifier id (the table holds one).
RecordOf(recs, id) == recs[CHOOSE i \in DOMAIN recs : recs[i].id = id]

\* The table holds no more records than one listing response carries.
OnePage == Len(store) <= PageSize

Updated(pre, id, updates) ==
    [k \in (DOMAIN RecordOf(pre, id).fields) \cup (DOMAIN updates) |->
        IF k \in DOMAIN updates THEN updates[k] ELSE RecordOf(pre, id).fields[k]]

\* After update(id, p) returned true, what a directly following list shows:
\* record id with the fields of p set and its other fields as before, and
\* every other record of the table as before.
UpdateShown(l, c) ==
    /\ ListsOnce(l, c.id, Updated(c.pre, c.id, c.fields))
    /\ \A j \in DOMAIN c.pre :
          c.pre[j].id # c.id => ListsOnce(l, c.pre[j].id, c.pre[j].fields)

CreateFailed(l) ==
    l.op = "create" /\ (l.kind = "exc" \/ l.status # HTTP_OK \/ ~l.readable \/ l.nbody = 0)

\* C4: a create that meets a non-success status, a transport failure, or
\* a success status whose body holds no created record returns None,
\* emits a diagnostic (the API error for a status, the exception text
\* otherwise) and lets no exception out.
C4_CreateFailure ==
    CreateFailed(last) =>
        /\ last.retId = None
        /\ last.diag = (IF last.kind = "http" /\ last.status # HTTP_OK
                        THEN ApiError ELSE ExcError)
        /\ ~last.raised
        /\ last.ui = "save_failed"

\* C4 witness: a 200 whose body holds an empty records list.
C4_Witness ==
    /\ last.op = "create" /\ last.kind = "http" /\ last.status = HTTP_OK
    /\ last.readable /\ last.nbody = 0

\* What each caller of list does with an empty table.
EmptyBranch(l) == IF l.op = "test" THEN "connected" ELSE "no_records"

\* C5: a list that meets a non-success status or a transport failure
\* returns the empty sequence, not None, and lets no exception out; the
\* connection test and the view tab then take the branch they take for a
\* successful list of an empty table.
C5_ListFailure ==
    /\ (IsList(last) /\ ~ListOk(last)) =>
          /\ last.retList = <<>> /\ ~last.retNone /\ ~last.raised
          /\ last.diag # NoDiag
          /\ last.ui = EmptyBranch(last)
    /\ (ListOk(last) /\ store = <<>>) =>
          /\ last.retList = <<>> /\ ~last.retNone
          /\ last.ui = EmptyBranch(last)

\* C5 witness: the connection test reports a connection although the list
\* of a non-empty table failed.
C5_Witness ==
    /\ last.op = "test" /\ ~ListOk(last)
    /\ store # <<>>
    /\ last.ui = "connected"

\* C6: update and delete return true exactly when a response arrived and
\* its status is 200; false for every other status and for every
\* transport failure.
C6_BooleanIffSuccess ==
    last.op \in {"update", "delete"} =>
        (last.retOk <=> (last.kind = "http" /\ last.status = HTTP_OK))

\* C6 witness: a delete answered 404 returns false.
C6_Witness ==
    last.op = "delete" /\ last.kind = "http" /\ last.status = 404 /\ ~last.retOk

\* The table is the table before the call plus one record with the fields.
OneAdded(pre, recs, fields) ==
    /\ Len(recs) = Len(pre) + 1
    /\ SubSeq(recs, 1, Len(pre)) = pre
    /\ recs[Len(recs)].fields = fields

\* C7 as stated: whenever create returns None, the table is as it was
\* before the call.
C7_NoneMeansNothingCreated ==
    (last.op = "create" /\ last.retId = None) => store = last.pre

\* C7 amended: when create returns None after a non-success status, the
\* table is as it was before the call; when it returns None after a
\* transport failure or a body it could not read, the table is either as
\* before or holds exactly one more record, with the submitted fields.
C7_NoneAfterCreate ==
    (last.op = "create" /\ last.retId = None) =>
        /\ (last.kind = "http" /\ last.status # HTTP_OK) => store = last.pre
        /\ store = last.pre \/ OneAdded(last.pre, store, last.fields)

\* C7 witness: create returned None and the record is in the table.
C7_Witness ==
    /\ last.op = "create" /\ last.retId = None /\ last.ui = "save_failed"
    /\ OneAdded(last.pre, store, last.fields)

\* Two creates in a row returned identifiers for the same fields.
TwoCreates(a, b) == a.op = "create" /\ b.op = "create" /\ a.fields = b.fields

C9_FlattenIdempotent ==
    nstage = "done" =>
        /\ nflat2 = nflat
        /\ DOMAIN nflat = (DOMAIN nrec.fields) \cup {"airtable_id"}
        /\ FlatId(nflat) = nrec.id
        /\ \A k \in (DOMAIN nrec.fields) \ {"airtable_id"} : nflat[k] = nrec.fields[k]

\* C9 witness: the round trip of a remote record whose table has a column
\* named airtable_id holding something other than the id.
C9_Witness ==
    /\ nstage = "done"
    /\ "airtable_id" \in DOMAIN nrec.fields
    /\ nrec.fields["airtable_id"] # nrec.id
    /\ "Notes" \in DOMAIN nrec.fields

\* The update call did not get a 200.
UpdateFailed(l) == l.op = "update" /\ (l.kind = "exc" \/ l.status # HTTP_OK)

\* C10 as stated: a failed update returns false and emits no diagnostic.
C10_FailedUpdateSilent ==
    UpdateFailed(last) => (~last.retOk /\ last.diag = NoDiag)

\* C10 amended: a failed update returns false; after a non-success status
\* it emits no diagnostic, after a transport failure it emits the
\* exception text as an error message.
C10_FailedUpdate ==
    UpdateFailed(last) =>
        /\ ~last.retOk
        /\ ~last.raised
        /\ last.kind = "http" => last.diag = NoDiag
        /\ last.kind = "exc" => last.diag = ExcError

\* C10 witness: an update answered 404 returns false without a diagnostic.
C10_Witness ==
    /\ last.op = "update" /\ last.kind = "http" /\ last.status = 404
    /\ ~last.retOk /\ last.diag = NoDiag

====
